---------------------------- MODULE Spec2Model ----------------------------
(***************************************************************************)
(* A model of textscreen.py: Pagination, TextWindow (with the TextScreen   *)
(* it records the terminal size in) and TextPad.                           *)
(*                                                                         *)
(* Python objects are records whose fields carry the attribute names of    *)
(* the source.  None and 0 are both falsy and every test the source makes  *)
(* on an optional number is a truth test followed by a comparison, so None *)
(* is modelled as 0.  A text is a sequence of character codes.  Reading an *)
(* attribute an object does not have raises AttributeError: an operation   *)
(* that can raise returns a record with a "raised" field.                  *)
(***************************************************************************)
EXTENDS Integers, Sequences, FiniteSets, TLC

VARIABLES
  term,     \* the live terminal size, what ScreenMethod.getSize() returns
  screen,   \* TextWindow.screen: the size the TextScreen has recorded
  window,   \* the TextWindow (of the TextPad, or on its own)
  pad,      \* the TextPad
  page,     \* TextPad.page or a Pagination on its own: <<>> (None) or <<object>>
  last,     \* the last call: its name, arguments and return value
  wcalls,   \* the TextWindow.write calls of the last TextPad.flush, per pad fragment
  out       \* what the last call wrote to sys.stdout

vars == <<term, screen, window, pad, page, last, wcalls, out>>

(***************************************************************************)
(* Bounds of the model.                                                    *)
(***************************************************************************)
MaxItemsPerPage == 5
MaxTotalItems == 12
MaxPage == 4
MaxTerm == 2      \* the terminal has 1 .. MaxTerm rows and columns
MaxText == 3      \* a text written has 0 .. MaxText characters
MaxWinBuf == 2    \* fragments written to a TextWindow on its own
PadRows == 2      \* the size of the TextPad constructed
PadColumns == 2
MaxPadBuf == 2    \* fragments in the buffer of a TextPad
MaxPadItems == 2  \* paginate(items_per_page) is called with 0 .. MaxPadItems
MaxPadPage == 2   \* page.setCurrentPage(n) of a pad is called with 0 .. MaxPadPage
MaxLineText == 1  \* longest text written where the pad's window is moved and resized
MaxPagedBuf == 1  \* fragments in the buffer of a paginated pad on a resized terminal

\* A variable of an object the specification at hand does not construct.
Absent == <<>>

(***************************************************************************)
(* The caller.  Every method runs to completion on the calling thread: a   *)
(* call is one step, which leaves its name, arguments and result in last   *)
(* (and what it wrote in out); the caller then takes the result and is     *)
(* free to make the next call.                                             *)
(***************************************************************************)
Idle == last.op = "idle"

Return ==
  /\ ~Idle
  /\ last' = [op |-> "idle"]
  /\ out' = <<>>
  /\ wcalls' = <<>>
  /\ UNCHANGED <<term, screen, window, pad, page>>

(***************************************************************************)
(* Pagination                                                              *)
(***************************************************************************)

\* math.ceil(a / b) for a >= 0, b >= 1
Ceil(a, b) == (a + b - 1) \div b

Pagination(items_per_page, total_items) ==
  LET ipp == IF items_per_page > 0 THEN items_per_page ELSE 1
      ti  == IF total_items > 0 THEN total_items ELSE 0
  IN  [_items_per_page |-> ipp,
       _total_items    |-> ti,
       _current_page   |-> 1,
       _total_pages    |-> Ceil(ti, ipp)]

\* the guard of setCurrentPage without the upper bound on the page
Pagination_setCurrentPage_NoUpper(self, pg) ==
  IF pg > 0
    THEN [self |-> [self EXCEPT !._current_page = pg], ret |-> TRUE]
    ELSE [self |-> self, ret |-> FALSE]

Pagination_setCurrentPage(self, pg) ==
  IF pg > 0 /\ (self._total_items = 0 \/ pg <= self._total_pages)
    THEN [self |-> [self EXCEPT !._current_page = pg], ret |-> TRUE]
    ELSE [self |-> self, ret |-> FALSE]

Pagination_setItemsPerPage(self, items_per_page, reset_current_page) ==
  IF items_per_page < 1
    THEN [self |-> self, ret |-> FALSE]
    ELSE LET tp == Ceil(self._total_items, items_per_page)
         IN  [self |-> [self EXCEPT
                          !._items_per_page = items_per_page,
                          !._total_pages = tp,
                          !._current_page =
                             IF reset_current_page \/ self._current_page < tp
                               THEN 1 ELSE self._current_page],
              ret |-> TRUE]

Pagination_setTotalItems(self, total_items, reset_current_page) ==
  IF total_items < 1
    THEN [self |-> self, ret |-> FALSE]
    ELSE LET tp == Ceil(total_items, self._items_per_page)
         IN  [self |-> [self EXCEPT
                          !._total_items = total_items,
                          !._total_pages = tp,
                          !._current_page =
                             IF reset_current_page \/ self._current_page < tp
                               THEN 1 ELSE self._current_page],
              ret |-> TRUE]

\* nextPage with <= in place of <
Pagination_nextPage_OffByOne(self) ==
  IF self._total_items = 0 \/ self._current_page <= self._total_pages
    THEN self._current_page + 1 ELSE 0

Pagination_nextPage(self) ==
  IF self._total_items = 0 \/ self._current_page < self._total_pages
    THEN self._current_page + 1 ELSE 0

\* return(self._currentPage - 1): the object has no attribute _currentPage
Pagination_previousPage(self) ==
  IF "_currentPage" \in DOMAIN self
    THEN [raised |-> FALSE, ret |-> self["_currentPage"] - 1]
    ELSE [raised |-> TRUE, ret |-> 0]

\* the condition reads self._total_page first: the object has no such attribute
Pagination_pageItems(self) ==
  LET begin == (self._current_page - 1) * self._items_per_page + 1
  IN  IF "_total_page" \in DOMAIN self
        THEN [raised |-> FALSE,
              ret |-> <<begin,
                        IF self._current_page < self["_total_page"]
                           \/ self._total_items = 0
                          THEN begin + self._items_per_page - 1
                          ELSE self._total_items>>]
        ELSE [raised |-> TRUE, ret |-> <<>>]

(***************************************************************************)
(* The calls on a Pagination object.                                       *)
(***************************************************************************)
ItemsPerPageArgs == (-1 .. MaxItemsPerPage) \cup {10}
TotalItemsArgs == (-1 .. MaxTotalItems) \cup {25}
PageArgs == 0 .. MaxPage

NotPage == UNCHANGED <<term, screen, window, pad, wcalls, out>>

SetCurrentPage ==
  /\ Idle
  /\ page # <<>>
  /\ \E n \in PageArgs :
       LET r == Pagination_setCurrentPage(page[1], n)
       IN  /\ page' = <<r.self>>
           /\ last' = [op |-> "setCurrentPage", arg |-> n, ret |-> r.ret]
  /\ NotPage

SetItemsPerPage ==
  /\ Idle
  /\ page # <<>>
  /\ \E n \in ItemsPerPageArgs, reset \in BOOLEAN :
       LET r == Pagination_setItemsPerPage(page[1], n, reset)
       IN  /\ page' = <<r.self>>
           /\ last' = [op |-> "setItemsPerPage", arg |-> n, reset |-> reset,
                       ret |-> r.ret]
  /\ NotPage

SetTotalItems ==
  /\ Idle
  /\ page # <<>>
  /\ \E n \in TotalItemsArgs, reset \in BOOLEAN :
       LET r == Pagination_setTotalItems(page[1], n, reset)
       IN  /\ page' = <<r.self>>
           /\ last' = [op |-> "setTotalItems", arg |-> n, reset |-> reset,
                       ret |-> r.ret]
  /\ NotPage

NextPage ==
  /\ Idle
  /\ page # <<>>
  /\ last' = [op |-> "nextPage", ret |-> Pagination_nextPage(page[1])]
  /\ UNCHANGED page
  /\ NotPage

PreviousPage ==
  /\ Idle
  /\ page # <<>>
  /\ LET r == Pagination_previousPage(page[1])
     IN  last' = [op |-> "previousPage", raised |-> r.raised, ret |-> r.ret]
  /\ UNCHANGED page
  /\ NotPage

PageItems ==
  /\ Idle
  /\ page # <<>>
  /\ LET r == Pagination_pageItems(page[1])
     IN  last' = [op |-> "pageItems", raised |-> r.raised, ret |-> r.ret]
  /\ UNCHANGED page
  /\ NotPage

InitPagination ==
  /\ \E i \in ItemsPerPageArgs, t \in TotalItemsArgs : page = <<Pagination(i, t)>>
  /\ last = [op |-> "Pagination"]
  /\ term = Absent /\ screen = Absent /\ window = Absent /\ pad = Absent
  /\ wcalls = <<>> /\ out = <<>>

NextPagination ==
  \/ Return
  \/ SetCurrentPage
  \/ SetItemsPerPage
  \/ SetTotalItems
  \/ NextPage
  \/ PreviousPage
  \/ PageItems

SpecPagination == InitPagination /\ [][NextPagination]_vars

(***************************************************************************)
(* RichText                                                                *)
(***************************************************************************)

\* RichText.__init__ with reserv_setting at its default, True
RichText(text, attrs, row, column) ==
  [text |-> text, attrs |-> attrs, row |-> row, column |-> column]

\* str(n) for n >= 0, as character codes
RECURSIVE Str(_)
Str(n) == IF n < 10 THEN <<48 + n>> ELSE Str(n \div 10) \o <<48 + (n % 10)>>

\* RichText.pack(row, column): the string written, as its parts.  "at" is the
\* argument of the cursor-position sequence (<<>>: none is written); the
\* save/restore pair goes with it.  The format has three holes with a position
\* sequence in it and one without: format(row, column, text) then fills the
\* one hole with row.
RichText_pack(rt, row, column) ==
  LET positioned == row > 0 /\ column > 0 /\ rt.text # <<>>
  IN  [attrs   |-> rt.attrs,
       at      |-> IF positioned THEN <<row, column>> ELSE <<>>,
       text    |-> IF row > 0 /\ column > 0 /\ ~positioned THEN Str(row) ELSE rt.text,
       restore |-> IF positioned THEN "RESTORE_CURSOR_ATTRS"
                   ELSE IF rt.attrs # <<>> THEN "RESET_ATTRS" ELSE ""]

(***************************************************************************)
(* TextScreen: the size it records, against the live terminal.             *)
(***************************************************************************)

\* TextScreen.resized(update=True): [changed, screen afterwards]
TextScreen_resized(scr, live) ==
  IF live.rows # scr.rows \/ live.columns # scr.columns
    THEN [ret |-> TRUE, screen |-> live]
    ELSE [ret |-> FALSE, screen |-> scr]

(***************************************************************************)
(* TextWindow.  Its methods take the window (self) and, where they read    *)
(* it, its TextScreen (scr) and the live terminal size (live).             *)
(***************************************************************************)
Min(a, b) == IF a < b THEN a ELSE b
Max(a, b) == IF a > b THEN a ELSE b

\* text[s:e] of Python, 0 <= s
Slice(text, s, e) == SubSeq(text, s + 1, Min(e, Len(text)))

\* setPos without the test against the screen
TextWindow_setPos_NoScreenTest(self, scr, beginRow, beginColumn) ==
  IF beginRow < 1 \/ beginColumn < 1
    THEN [self |-> self, ret |-> FALSE]
    ELSE [self |-> [self EXCEPT !.beginRow = beginRow, !.beginColumn = beginColumn],
          ret |-> TRUE]

TextWindow_setPos(self, scr, beginRow, beginColumn) ==
  IF \/ beginRow < 1 \/ beginColumn < 1
     \/ beginRow + self.rows - 1 > scr.rows
     \/ beginColumn + self.columns - 1 > scr.columns
    THEN [self |-> self, ret |-> FALSE]
    ELSE [self |-> [self EXCEPT !.beginRow = beginRow, !.beginColumn = beginColumn],
          ret |-> TRUE]

TextWindow_cursorHome(self) == [self EXCEPT !.cursorRow = 1, !.cursorColumn = 1]

TextWindow_newLine(self) ==
  [self EXCEPT !.cursorRow = self.cursorRow + 1, !.cursorColumn = 1]

TextWindow_newBuffer(self) == TextWindow_cursorHome([self EXCEPT !.buffer = <<>>])

\* setSize that keeps the window where it is, whether or not it still fits
TextWindow_setSize_KeepPos(self, scr, rows, columns) ==
  IF rows < 1 \/ columns < 1 \/ rows > scr.rows \/ columns > scr.columns
    THEN [self |-> self, ret |-> FALSE]
  ELSE IF self.rows = rows /\ self.columns = columns
    THEN [self |-> self, ret |-> TRUE]
  ELSE [self |-> [TextWindow_newBuffer(self) EXCEPT !.rows = rows, !.columns = columns],
        ret |-> TRUE]

TextWindow_setSize(self, scr, rows, columns) ==
  IF rows < 1 \/ columns < 1 \/ rows > scr.rows \/ columns > scr.columns
    THEN [self |-> self, ret |-> FALSE]
  ELSE IF self.rows = rows /\ self.columns = columns
    THEN [self |-> self, ret |-> TRUE]
  ELSE LET w == [TextWindow_newBuffer(self) EXCEPT !.rows = rows, !.columns = columns]
           p == TextWindow_setPos(w, scr, w.beginRow, w.beginColumn)
       IN  [self |-> IF p.ret THEN p.self ELSE TextWindow_setPos(w, scr, 1, 1).self,
            ret |-> TRUE]

\* moveCursor(row, column, n, line_feed); self.rows and self.columns bound it
\* (TextPad.moveCursor is the same text)
MoveCursor(self, row, column, n, line_feed) ==
  LET r == IF row > 0 /\ row <= self.rows THEN row ELSE self.cursorRow
      c == IF column > 0 /\ column <= self.columns THEN column ELSE self.cursorColumn
      d == IF c + n < 1 THEN 1 ELSE c + n
  IN  IF d > self.columns \/ line_feed
        THEN [self EXCEPT !.cursorRow = r + 1, !.cursorColumn = 1]
        ELSE [self EXCEPT !.cursorRow = r, !.cursorColumn = d]

TextWindow_moveCursor(self, row, column, n, line_feed) ==
  MoveCursor(self, row, column, n, line_feed)

\* write that does not cut the text at the right edge of the window
TextWindow_write_NoTruncation(self, text, row, column, attrs, line_feed) ==
  LET rrow == IF row > 0 THEN row ELSE self.cursorRow
      rcolumn == IF column > 0 THEN column ELSE self.cursorColumn
      moved == TextWindow_moveCursor(self, rrow, rcolumn, Len(text), line_feed)
  IN  IF rrow > self.rows \/ rcolumn > self.columns
        THEN [self |-> self, ret |-> FALSE]
        ELSE [self |-> [moved EXCEPT !.buffer =
                          Append(self.buffer, RichText(text, attrs, rrow, rcolumn))],
              ret |-> TRUE]

TextWindow_write(self, text, row, column, attrs, line_feed) ==
  LET rrow == IF row > 0 THEN row ELSE self.cursorRow
      rcolumn == IF column > 0 THEN column ELSE self.cursorColumn
      width == Min(Len(text), self.columns - rcolumn + 1)
      moved == TextWindow_moveCursor(self, rrow, rcolumn, width, line_feed)
  IN  IF rrow > self.rows \/ rcolumn > self.columns
        THEN [self |-> self, ret |-> FALSE]
        ELSE [self |-> [moved EXCEPT !.buffer =
                          Append(self.buffer,
                                 RichText(Slice(text, 0, width), attrs, rrow, rcolumn))],
              ret |-> TRUE]

TextWindow_print(self, text, row, column, attrs) ==
  TextWindow_write(self, text, row, column, attrs, TRUE)

\* flush: [screen afterwards, what was written]
TextWindow_flush(self, scr, live) ==
  LET rs == TextScreen_resized(scr, live)
      s == rs.screen
  IN  IF rs.ret /\ (\/ self.beginRow + self.rows - 1 > s.rows
                    \/ self.beginColumn + self.columns - 1 > s.columns)
        THEN [screen |-> s, out |-> <<>>]
        ELSE [screen |-> s,
              out |-> [i \in 1 .. Len(self.buffer) |->
                         RichText_pack(self.buffer[i],
                                       self.beginRow + self.buffer[i].row - 1,
                                       self.beginColumn + self.buffer[i].column - 1)]]

\* moveWindow: [window, screen, out afterwards]
TextWindow_moveWindow(self, scr, live, beginRow, beginColumn) ==
  LET p == TextWindow_setPos(self, scr, beginRow, beginColumn)
      f == TextWindow_flush(p.self, scr, live)
  IN  IF p.ret
        THEN [self |-> p.self, screen |-> f.screen, out |-> f.out, moved |-> TRUE]
        ELSE [self |-> self, screen |-> scr, out |-> <<>>, moved |-> FALSE]

\* ' ' * n
Blanks(n) == [i \in 1 .. Max(n, 0) |-> 32]

\* clearWindow: [screen afterwards, what was written]
TextWindow_clearWindow(self, scr, live) ==
  LET rs == TextScreen_resized(scr, live)
      s == rs.screen
      text == Blanks(Min(self.columns, s.columns - self.beginColumn + 1))
      endRow == self.beginRow - 1 + Min(self.rows, s.rows - self.beginRow + 1)
  IN  IF ~rs.ret \/ (self.beginRow <= s.rows /\ self.beginColumn <= s.columns)
        THEN [screen |-> s,
              out |-> [i \in 1 .. Max(endRow - self.beginRow + 1, 0) |->
                         RichText_pack(RichText(text, <<0>>, self.beginRow + i - 1,
                                                self.beginColumn),
                                       self.beginRow + i - 1, self.beginColumn)]]
        ELSE [screen |-> s, out |-> <<>>]

\* TextWindow(rows, columns, beginRow, beginColumn) on a terminal of size live
TextWindow(live, rows, columns, beginRow, beginColumn) ==
  LET w0 == [rows |-> live.rows, columns |-> live.columns,
             beginRow |-> 1, beginColumn |-> 1,
             cursorRow |-> 1, cursorColumn |-> 1, buffer |-> <<>>]
      sz == TextWindow_setSize(w0, live, rows, columns)
  IN  IF sz.ret THEN TextWindow_setPos(sz.self, live, beginRow, beginColumn).self
      ELSE w0

(***************************************************************************)
(* The calls on a TextWindow on its own, and the terminal being resized.   *)
(***************************************************************************)
TermSizes == { [rows |-> r, columns |-> c] : r \in 1 .. MaxTerm, c \in 1 .. MaxTerm }

\* 'A', 'AB', ...: the characters of a text all differ
Text(n) == [i \in 1 .. n |-> 64 + i]
Texts == { Text(n) : n \in 0 .. MaxText }
AttrsArgs == { <<33>> }
SizeArgs == 0 .. MaxTerm + 1
PosArgs == 0 .. MaxTerm + 1

NotWindow == UNCHANGED <<pad, page, wcalls>>

\* the terminal is resized (SIGWINCH): getSize() answers differently from now on
TermResize ==
  /\ Idle
  /\ \E t \in TermSizes : t # term /\ term' = t
  /\ UNCHANGED <<screen, window, pad, page, last, wcalls, out>>

\* setSize(rows, columns); was is the geometry the window had at the call
WinSetSize ==
  /\ Idle
  /\ \E rows \in SizeArgs, columns \in SizeArgs :
       LET r == TextWindow_setSize(window, screen, rows, columns)
       IN  /\ window' = r.self
           /\ last' = [op |-> "setSize", rows |-> rows, columns |-> columns,
                       ret |-> r.ret,
                       was |-> [rows |-> window.rows, columns |-> window.columns,
                                beginRow |-> window.beginRow,
                                beginColumn |-> window.beginColumn]]
  /\ out' = <<>>
  /\ UNCHANGED <<term, screen>>
  /\ NotWindow

WinSetPos ==
  /\ Idle
  /\ \E beginRow \in PosArgs, beginColumn \in PosArgs :
       LET r == TextWindow_setPos(window, screen, beginRow, beginColumn)
       IN  /\ window' = r.self
           /\ last' = [op |-> "setPos", beginRow |-> beginRow,
                       beginColumn |-> beginColumn, ret |-> r.ret]
  /\ out' = <<>>
  /\ UNCHANGED <<term, screen>>
  /\ NotWindow

WinMoveWindow ==
  /\ Idle
  /\ \E beginRow \in PosArgs, beginColumn \in PosArgs :
       LET r == TextWindow_moveWindow(window, screen, term, beginRow, beginColumn)
       IN  /\ window' = r.self
           /\ screen' = r.screen
           /\ out' = r.out
           /\ last' = [op |-> "moveWindow", beginRow |-> beginRow,
                       beginColumn |-> beginColumn, moved |-> r.moved]
  /\ UNCHANGED term
  /\ NotWindow

\* write(text, row, column, attrs) and print(text, row, column, attrs), which
\* is write(text, row, column, attrs, True)
WinWrite ==
  /\ Idle
  /\ Len(window.buffer) < MaxWinBuf
  /\ \E text \in Texts, row \in PosArgs, column \in PosArgs, attrs \in AttrsArgs,
        line_feed \in BOOLEAN :
       \E r \in {IF line_feed THEN TextWindow_print(window, text, row, column, attrs)
                 ELSE TextWindow_write(window, text, row, column, attrs, FALSE)} :
           /\ window' = r.self
           /\ last' = [op |-> IF line_feed THEN "print" ELSE "write",
                       text |-> text, row |-> row, column |-> column,
                       attrs |-> attrs, line_feed |-> line_feed, ret |-> r.ret]
  /\ out' = <<>>
  /\ UNCHANGED <<term, screen>>
  /\ NotWindow

WinNewBuffer ==
  /\ Idle
  /\ window' = TextWindow_newBuffer(window)
  /\ last' = [op |-> "newBuffer"]
  /\ out' = <<>>
  /\ UNCHANGED <<term, screen>>
  /\ NotWindow

WinFlush ==
  /\ Idle
  /\ LET r == TextWindow_flush(window, screen, term)
     IN  screen' = r.screen /\ out' = r.out
  /\ last' = [op |-> "flush"]
  /\ UNCHANGED <<term, window>>
  /\ NotWindow

WinClearWindow ==
  /\ Idle
  /\ LET r == TextWindow_clearWindow(window, screen, term)
     IN  screen' = r.screen /\ out' = r.out
  /\ last' = [op |-> "clearWindow"]
  /\ UNCHANGED <<term, window>>
  /\ NotWindow

InitWindow ==
  /\ term \in TermSizes
  /\ screen = term
  /\ \E rows \in SizeArgs, columns \in SizeArgs, beginRow \in PosArgs,
        beginColumn \in PosArgs :
       window = TextWindow(term, rows, columns, beginRow, beginColumn)
  /\ last = [op |-> "TextWindow"]
  /\ pad = Absent /\ page = <<>> /\ wcalls = <<>> /\ out = <<>>

NextWindow ==
  \/ Return
  \/ TermResize
  \/ WinSetSize
  \/ WinSetPos
  \/ WinMoveWindow
  \/ WinWrite
  \/ WinNewBuffer
  \/ WinFlush
  \/ WinClearWindow

SpecWindow == InitWindow /\ [][NextWindow]_vars

(***************************************************************************)
(* TextPad.  A method of the pad may change the pad, its window, the       *)
(* window's screen and its Pagination, and write to the terminal: it takes *)
(* and returns the record st of all of them,                               *)
(*   [pad, window, screen, page, wcalls, out].                             *)
(***************************************************************************)
PAD_ROWS == 8192
PAD_COLUMNS == 512

TextPad_cursorHome(self) == [self EXCEPT !.cursorRow = 1, !.cursorColumn = 1]

TextPad_moveCursor(self, row, column, n, line_feed) ==
  MoveCursor(self, row, column, n, line_feed)

\* self.page.setTotalItems(self._max_rows - self.beginRow + 1), if self.page
RefreshTotalItems(st) ==
  IF st.page # <<>>
    THEN [st EXCEPT !.page =
            <<Pagination_setTotalItems(st.page[1],
                                       st.pad._max_rows - st.pad.beginRow + 1,
                                       FALSE).self>>]
    ELSE st

TextPad_setDisplayPos(st, row, column) ==
  LET self == st.pad
  IN  RefreshTotalItems(
        [st EXCEPT !.pad = [self EXCEPT
           !.beginRow = IF row > 0 /\ row <= self.rows THEN row ELSE 1,
           !.beginColumn = IF column > 0 /\ column <= self.columns THEN column ELSE 1]])

\* _updateMaxRows with != in place of > in its test
TextPad_updateMaxRows_NotEqual(st, row) ==
  IF row # st.pad._max_rows
    THEN RefreshTotalItems([st EXCEPT !.pad._max_rows = row])
    ELSE st

TextPad_updateMaxRows(st, row) ==
  IF row > st.pad._max_rows
    THEN RefreshTotalItems([st EXCEPT !.pad._max_rows = row])
    ELSE st

RECURSIVE TextPad_write(_, _, _, _, _, _)
TextPad_write(st, text, row, column, attrs, line_feed) ==
  LET self == st.pad
      rrow == IF row > 0 THEN row ELSE self.cursorRow
      rcolumn == IF column > 0 THEN column ELSE self.cursorColumn
      tl == Len(text)
      l == Min(tl, self.columns - rcolumn + 1)
      s1 == TextPad_updateMaxRows(st, rrow)
      s2 == [s1 EXCEPT !.pad.buffer =
               Append(@, RichText(Slice(text, 0, l), attrs, rrow, rcolumn))]
      s3 == [s2 EXCEPT !.pad = TextPad_moveCursor(s2.pad, rrow, rcolumn, l, line_feed)]
  IN  IF rrow > self.rows \/ rcolumn > self.columns
        THEN [st |-> st, ret |-> FALSE]
        ELSE [st |-> IF self.lineWrap /\ tl > l
                       THEN TextPad_write(s3, Slice(text, l, tl), 0, 0, attrs, FALSE).st
                       ELSE s3,
              ret |-> TRUE]

TextPad_print(st, text, row, column, attrs) ==
  TextPad_write(st, text, row, column, attrs, TRUE)

\* self.window.write(text, row, column, rt.attrs), the call logged in wcalls
WindowWrite(st, text, row, column, attrs) ==
  LET r == TextWindow_write(st.window, text, row, column, attrs, FALSE)
  IN  [st EXCEPT !.window = r.self,
                 !.wcalls = Append(@, [called |-> TRUE, text |-> text, row |-> row,
                                       column |-> column, ret |-> r.ret])]

NoWindowWrite(st) == [st EXCEPT !.wcalls = Append(@, [called |-> FALSE])]

\* _writeWindowBuffer with >= in place of > in the test for a fragment that
\* straddles the left edge of the viewport
TextPad_writeWindowBuffer_ClipOffByOne(st, rt) ==
  LET self == st.pad
      paged == st.page # <<>>
      delta == IF paged
                 THEN (st.page[1]._current_page - 1) * st.page[1]._items_per_page
                 ELSE 0
      row == rt.row - self.beginRow - delta + 1
  IN  IF \/ rt.row < self.beginRow + delta
         \/ (paged /\ rt.row >= self.beginRow + delta + st.page[1]._items_per_page)
        THEN NoWindowWrite(st)
      ELSE IF rt.column >= self.beginColumn
        THEN WindowWrite(st, rt.text, row, rt.column - self.beginColumn + 1, rt.attrs)
      ELSE IF Len(rt.text) + rt.column >= self.beginColumn
        THEN WindowWrite(st, Slice(rt.text, self.beginColumn - rt.column, Len(rt.text)),
                         row, 1, rt.attrs)
      ELSE NoWindowWrite(st)

\* _writeWindowBuffer with > in place of >= in the test for a row past the page
TextPad_writeWindowBuffer_PageOffByOne(st, rt) ==
  LET self == st.pad
      paged == st.page # <<>>
      delta == IF paged
                 THEN (st.page[1]._current_page - 1) * st.page[1]._items_per_page
                 ELSE 0
      row == rt.row - self.beginRow - delta + 1
  IN  IF \/ rt.row < self.beginRow + delta
         \/ (paged /\ rt.row > self.beginRow + delta + st.page[1]._items_per_page)
        THEN NoWindowWrite(st)
      ELSE IF rt.column >= self.beginColumn
        THEN WindowWrite(st, rt.text, row, rt.column - self.beginColumn + 1, rt.attrs)
      ELSE IF Len(rt.text) + rt.column > self.beginColumn
        THEN WindowWrite(st, Slice(rt.text, self.beginColumn - rt.column, Len(rt.text)),
                         row, 1, rt.attrs)
      ELSE NoWindowWrite(st)

TextPad_writeWindowBuffer(st, rt) ==
  LET self == st.pad
      paged == st.page # <<>>
      delta == IF paged
                 THEN (st.page[1]._current_page - 1) * st.page[1]._items_per_page
                 ELSE 0
      row == rt.row - self.beginRow - delta + 1
  IN  IF \/ rt.row < self.beginRow + delta
         \/ (paged /\ rt.row >= self.beginRow + delta + st.page[1]._items_per_page)
        THEN NoWindowWrite(st)
      ELSE IF rt.column >= self.beginColumn
        THEN WindowWrite(st, rt.text, row, rt.column - self.beginColumn + 1, rt.attrs)
      ELSE IF Len(rt.text) + rt.column > self.beginColumn
        THEN WindowWrite(st, Slice(rt.text, self.beginColumn - rt.column, Len(rt.text)),
                         row, 1, rt.attrs)
      ELSE NoWindowWrite(st)

\* for rt in self.buffer[i ..]: self._writeWindowBuffer(rt)
RECURSIVE WriteWindowBufferFrom(_, _)
WriteWindowBufferFrom(st, i) ==
  IF i > Len(st.pad.buffer) THEN st
  ELSE WriteWindowBufferFrom(TextPad_writeWindowBuffer(st, st.pad.buffer[i]), i + 1)

TextPad_flush(st, live) ==
  LET s1 == IF st.pad.fullScreen
              THEN [st EXCEPT !.window =
                      TextWindow_setSize(st.window, st.screen, live.rows, live.columns).self]
              ELSE st
      s2 == [s1 EXCEPT !.window = TextWindow_newBuffer(s1.window), !.wcalls = <<>>]
      s3 == WriteWindowBufferFrom(s2, 1)
      f == TextWindow_flush(s3.window, s3.screen, live)
  IN  [s3 EXCEPT !.screen = f.screen, !.out = st.out \o f.out]

\* ScreenMethod.clearScreen(): ERASE_SCREEN + CURSOR_HOME
ClearScreen == <<[erase |-> "ERASE_SCREEN", at |-> <<1, 1>>]>>

TextPad_clearWindow(st, live) ==
  IF st.pad.fullScreen
    THEN [st EXCEPT !.out = @ \o ClearScreen]
    ELSE LET c == TextWindow_clearWindow(st.window, st.screen, live)
         IN  [st EXCEPT !.screen = c.screen, !.out = @ \o c.out]

TextPad_newContent(st, live) ==
  TextPad_clearWindow(
    [st EXCEPT !.pad = TextPad_cursorHome([st.pad EXCEPT !.buffer = <<>>, !._max_rows = 0]),
               !.window = TextWindow_newBuffer(st.window)],
    live)

TextPad_newPad(st, live, rows, columns) ==
  TextPad_newContent(
    [st EXCEPT !.pad.rows = IF rows > 0 THEN rows ELSE PAD_ROWS,
               !.pad.columns = IF columns > 0 THEN columns ELSE PAD_COLUMNS],
    live)

TextPad_movePad(st, live, row, column) ==
  TextPad_flush(TextPad_setDisplayPos(st, row, column), live)

TextPad_moveWindow(st, live, beginRow, beginColumn) ==
  LET m == TextWindow_moveWindow(st.window, st.screen, live, beginRow, beginColumn)
  IN  [st EXCEPT !.window = m.self, !.screen = m.screen, !.out = @ \o m.out]

\* resizeWindow without the test of self._items_per_page
TextPad_resizeWindow_AlwaysDerived(st, live, rows, columns) ==
  LET sz == TextWindow_setSize(st.window, st.screen, rows, columns)
      s1 == [st EXCEPT !.window = sz.self]
      s2 == IF s1.page # <<>>
              THEN [s1 EXCEPT !.page =
                      <<Pagination_setItemsPerPage(s1.page[1], s1.window.rows, TRUE).self>>]
              ELSE s1
  IN  IF sz.ret THEN TextPad_flush(s2, live) ELSE st

TextPad_resizeWindow(st, live, rows, columns) ==
  LET sz == TextWindow_setSize(st.window, st.screen, rows, columns)
      s1 == [st EXCEPT !.window = sz.self]
      s2 == IF s1.page # <<>> /\ s1.pad._items_per_page = 0
              THEN [s1 EXCEPT !.page =
                      <<Pagination_setItemsPerPage(s1.page[1], s1.window.rows, TRUE).self>>]
              ELSE s1
  IN  IF sz.ret THEN TextPad_flush(s2, live) ELSE st

TextPad_paginate(st, items_per_page) ==
  LET s1 == IF items_per_page > 0
              THEN [st EXCEPT !.pad._items_per_page = items_per_page]
              ELSE st
      ipp == IF s1.pad._items_per_page # 0 THEN s1.pad._items_per_page
             ELSE s1.window.rows
  IN  [s1 EXCEPT !.page = <<Pagination(ipp, s1.pad._max_rows - s1.pad.beginRow + 1)>>]

\* TextPad(rows, columns, win_rows, win_columns, win_begin_row, win_begin_column,
\*         display_begin_row, display_begin_column) on a terminal of size live
TextPad(live, rows, columns, win_rows, win_columns, win_begin_row, win_begin_column, display_begin_row, display_begin_column) ==
  LET st0 == [window |-> TextWindow(live, win_rows, win_columns, win_begin_row,
                                    win_begin_column),
              screen |-> live,
              pad |-> [rows |-> 0, columns |-> 0, cursorRow |-> 1, cursorColumn |-> 1,
                       beginRow |-> 1, beginColumn |-> 1, _max_rows |-> 0,
                       _items_per_page |-> 0, lineWrap |-> TRUE, buffer |-> <<>>,
                       fullScreen |-> FALSE],
              page |-> <<>>,
              wcalls |-> <<>>,
              out |-> <<>>]
  IN  TextPad_setDisplayPos(TextPad_newPad(st0, live, rows, columns),
                            display_begin_row, display_begin_column)

(***************************************************************************)
(* The calls on a TextPad.                                                 *)
(***************************************************************************)
Cur == [pad |-> pad, window |-> window, screen |-> screen, page |-> page,
        wcalls |-> <<>>, out |-> <<>>]

Becomes(st) ==
  /\ pad' = st.pad /\ window' = st.window /\ screen' = st.screen
  /\ page' = st.page /\ wcalls' = st.wcalls /\ out' = st.out

PadRowArgs == 0 .. PadRows
PadColumnArgs == 0 .. PadColumns
PadPageArgs == 0 .. MaxPadPage
NewPadArgs == { <<PadRows, PadColumns>> }

\* write(text, row, column, attrs) and print(text, row, column, attrs), which
\* is write(text, row, column, attrs, True)
PadWrite ==
  /\ Idle
  /\ \E text \in Texts, row \in PadRowArgs, column \in PadColumnArgs,
        attrs \in AttrsArgs, line_feed \in BOOLEAN :
       \E r \in {IF line_feed THEN TextPad_print(Cur, text, row, column, attrs)
                 ELSE TextPad_write(Cur, text, row, column, attrs, FALSE)} :
           /\ Len(r.st.pad.buffer) <= MaxPadBuf
           /\ Becomes(r.st)
           /\ last' = [op |-> IF line_feed THEN "print" ELSE "write",
                       text |-> text, row |-> row, column |-> column,
                       attrs |-> attrs, line_feed |-> line_feed, ret |-> r.ret]
  /\ UNCHANGED term

PadFlush ==
  /\ Idle
  /\ \E st \in {TextPad_flush(Cur, term)} : Becomes(st)
  /\ last' = [op |-> "flush"]
  /\ UNCHANGED term

PadMovePad ==
  /\ Idle
  /\ \E row \in PadRowArgs, column \in PadColumnArgs :
       /\ \E st \in {TextPad_movePad(Cur, term, row, column)} : Becomes(st)
       /\ last' = [op |-> "movePad", row |-> row, column |-> column]
  /\ UNCHANGED term

PadMoveWindow ==
  /\ Idle
  /\ \E beginRow \in PosArgs, beginColumn \in PosArgs :
       /\ \E st \in {TextPad_moveWindow(Cur, term, beginRow, beginColumn)} : Becomes(st)
       /\ last' = [op |-> "moveWindow", beginRow |-> beginRow,
                   beginColumn |-> beginColumn]
  /\ UNCHANGED term

\* resizeWindow(rows, columns); was is the size the window had at the call
PadResizeWindow ==
  /\ Idle
  /\ \E rows \in SizeArgs, columns \in SizeArgs :
       /\ \E st \in {TextPad_resizeWindow(Cur, term, rows, columns)} : Becomes(st)
       /\ last' = [op |-> "resizeWindow", rows |-> rows, columns |-> columns,
                   was |-> [rows |-> window.rows, columns |-> window.columns]]
  /\ UNCHANGED term

PadClearWindow ==
  /\ Idle
  /\ \E st \in {TextPad_clearWindow(Cur, term)} : Becomes(st)
  /\ last' = [op |-> "clearWindow"]
  /\ UNCHANGED term

PadNewContent ==
  /\ Idle
  /\ \E st \in {TextPad_newContent(Cur, term)} : Becomes(st)
  /\ last' = [op |-> "newContent"]
  /\ UNCHANGED term

\* newPad(rows, columns), with the size the pad has
PadNewPad ==
  /\ Idle
  /\ \E size \in NewPadArgs :
       /\ \E st \in {TextPad_newPad(Cur, term, size[1], size[2])} : Becomes(st)
       /\ last' = [op |-> "newPad", rows |-> size[1], columns |-> size[2]]
  /\ UNCHANGED term

PadPaginate ==
  /\ Idle
  /\ \E items_per_page \in 0 .. MaxPadItems :
       /\ \E st \in {TextPad_paginate(Cur, items_per_page)} : Becomes(st)
       /\ last' = [op |-> "paginate", items_per_page |-> items_per_page]
  /\ UNCHANGED term

\* self.page.setCurrentPage(n), the caller's way to turn the page of a pad
PadSetCurrentPage ==
  /\ Idle
  /\ page # <<>>
  /\ \E n \in PadPageArgs :
       \E r \in {Pagination_setCurrentPage(page[1], n)} :
           /\ page' = <<r.self>>
           /\ last' = [op |-> "setCurrentPage", arg |-> n, ret |-> r.ret]
  /\ UNCHANGED <<term, screen, window, pad, wcalls, out>>

PadEnableLineWrap ==
  /\ Idle
  /\ \E st \in {[Cur EXCEPT !.pad.lineWrap = TRUE]} : Becomes(st)
  /\ last' = [op |-> "enableLineWrap"]
  /\ UNCHANGED term

PadDisableLineWrap ==
  /\ Idle
  /\ \E st \in {[Cur EXCEPT !.pad.lineWrap = FALSE]} : Becomes(st)
  /\ last' = [op |-> "disableLineWrap"]
  /\ UNCHANGED term

PadEnableFullScreen ==
  /\ Idle
  /\ \E st \in {[Cur EXCEPT !.pad.fullScreen = TRUE]} : Becomes(st)
  /\ last' = [op |-> "enableFullScreen"]
  /\ UNCHANGED term

PadDisableFullScreen ==
  /\ Idle
  /\ \E st \in {[Cur EXCEPT !.pad.fullScreen = FALSE]} : Becomes(st)
  /\ last' = [op |-> "disableFullScreen"]
  /\ UNCHANGED term

\* A pad of PadRows x PadColumns, its window given any size and put at (1, 1),
\* on a terminal of MaxTerm x MaxTerm; the constructor has returned.
InitPad ==
  /\ term = [rows |-> MaxTerm, columns |-> MaxTerm]
  /\ \E win_rows \in SizeArgs, win_columns \in SizeArgs :
       LET st == TextPad(term, PadRows, PadColumns, win_rows, win_columns, 1, 1, 1, 1)
       IN  /\ pad = st.pad /\ window = st.window /\ screen = st.screen
           /\ page = st.page
  /\ wcalls = <<>> /\ out = <<>>
  /\ last = [op |-> "idle"]

\* Writing to the pad, paging it and scrolling it, on a terminal that keeps
\* its size.
NextPad ==
  \/ Return
  \/ PadWrite
  \/ PadFlush
  \/ PadMovePad
  \/ PadPaginate
  \/ PadSetCurrentPage
  \/ PadNewContent

SpecPad == InitPad /\ [][NextPad]_vars

\* Writing to the pad with line wrap switched on and off.
NextPadWrite ==
  \/ Return
  \/ PadWrite
  \/ PadNewContent
  \/ PadEnableLineWrap
  \/ PadDisableLineWrap

SpecPadWrite == InitPad /\ [][NextPadWrite]_vars

\* a write or print of at most MaxLineText characters at a given row and column
ShortWrite == Len(last'.text) <= MaxLineText /\ last'.row > 0 /\ last'.column > 0

\* Every operation of the pad, its window moved and resized, on a terminal
\* that keeps its size; the texts written are short.
NextPadWindow ==
  \/ Return
  \/ (PadWrite /\ ShortWrite)
  \/ PadFlush
  \/ PadMovePad
  \/ PadMoveWindow
  \/ PadResizeWindow
  \/ PadClearWindow
  \/ PadPaginate
  \/ PadNewContent
  \/ PadNewPad

SpecPadWindow == InitPad /\ [][NextPadWindow]_vars

\* A pad in and out of full-screen mode, on a terminal that is resized.
NextPadFullScreen ==
  \/ Return
  \/ TermResize
  \/ PadWrite
  \/ PadFlush
  \/ PadClearWindow
  \/ PadEnableFullScreen
  \/ PadDisableFullScreen

SpecPadFullScreen == InitPad /\ [][NextPadFullScreen]_vars

\* the pad's buffer holds at most MaxPagedBuf fragments after the write
FewLines == Len(pad'.buffer) <= MaxPagedBuf

\* A paginated pad, its window resized by the caller and, in full-screen
\* mode, by flush, on a terminal that is resized.
NextPadPagedScreen ==
  \/ Return
  \/ TermResize
  \/ (PadWrite /\ ShortWrite /\ FewLines)
  \/ PadFlush
  \/ PadResizeWindow
  \/ PadPaginate
  \/ PadEnableFullScreen
  \/ PadDisableFullScreen

SpecPadPagedScreen == InitPad /\ [][NextPadPagedScreen]_vars

(***************************************************************************)
(* Properties of Pagination, checked under SpecPagination.                 *)
(***************************************************************************)

\* C4: in every reachable state, currentPage <= totalPages whenever
\* totalItems > 0.
C4_CurrentPageWithinTotalPages ==
  page # <<>> =>
    (page[1]._total_items > 0 => page[1]._current_page <= page[1]._total_pages)

\* C5: setCurrentPage(n) returns True and sets currentPage to n if and only if
\* n >= 1 and (totalItems = 0 or n <= totalPages); otherwise it returns False
\* and leaves currentPage, itemsPerPage, totalItems and totalPages unchanged.
C5_SetCurrentPage ==
  [][ last'.op = "setCurrentPage" =>
        LET p == page[1]
            q == page'[1]
            n == last'.arg
            ok == n >= 1 /\ (p._total_items = 0 \/ n <= p._total_pages)
        IN  /\ last'.ret = ok
            /\ ok => q = [p EXCEPT !._current_page = n]
            /\ ~ok => q = p ]_vars

\* C5, its instance: with itemsPerPage = 5 and totalItems = 12 there are 3
\* pages; on page 3 (setCurrentPage(3) succeeded), setCurrentPage(4) has failed.
C5_Witness ==
  /\ last.op = "setCurrentPage" /\ last.arg = 4 /\ last.ret = FALSE
  /\ page[1] = [_items_per_page |-> 5, _total_items |-> 12,
                _current_page |-> 3, _total_pages |-> 3]

\* C6: setItemsPerPage(n, reset) and setTotalItems(n, reset) with n >= 1 return
\* True, store n, recompute totalPages = ceil(totalItems / itemsPerPage) and
\* leave currentPage unchanged unless reset is true or the old currentPage
\* exceeds the new totalPages, in which case currentPage becomes 1; with n < 1
\* they return False and change nothing.
C6_SetItemsOrTotal ==
  [][ last'.op \in {"setItemsPerPage", "setTotalItems"} =>
        LET p == page[1]
            q == page'[1]
            n == last'.arg
            ipp == IF last'.op = "setItemsPerPage" THEN n ELSE p._items_per_page
            ti == IF last'.op = "setTotalItems" THEN n ELSE p._total_items
        IN  IF n >= 1
              THEN /\ last'.ret = TRUE
                   /\ q._items_per_page = ipp
                   /\ q._total_items = ti
                   /\ q._total_pages = Ceil(ti, ipp)
                   /\ q._current_page =
                        IF last'.reset \/ p._current_page > Ceil(ti, ipp)
                          THEN 1 ELSE p._current_page
              ELSE last'.ret = FALSE /\ q = p ]_vars

\* C7: nextPage() returns currentPage + 1 when totalItems = 0 or currentPage <
\* totalPages, and 0 when totalItems > 0 and currentPage is the last page; it
\* never changes the Pagination.
C7_NextPage ==
  [][ last'.op = "nextPage" =>
        LET p == page[1]
        IN  /\ page' = page
            /\ (p._total_items = 0 \/ p._current_page < p._total_pages)
                 => last'.ret = p._current_page + 1
            /\ (p._total_items > 0 /\ p._current_page = p._total_pages)
                 => last'.ret = 0 ]_vars

\* C7, its instance: Pagination(10, 25) has 3 pages and on page 3 nextPage()
\* has returned 0.
C7_Witness ==
  /\ last.op = "nextPage" /\ last.ret = 0
  /\ page[1] = [_items_per_page |-> 10, _total_items |-> 25,
                _current_page |-> 3, _total_pages |-> 3]

\* C8: previousPage() returns currentPage - 1 when currentPage > 1 and 0 when
\* currentPage = 1, without raising.
C8_PreviousPage ==
  last.op = "previousPage" =>
    /\ ~last.raised
    /\ last.ret = IF page[1]._current_page > 1
                    THEN page[1]._current_page - 1 ELSE 0

\* C9: pageItems() returns <<first, last>> with first = (currentPage - 1) *
\* itemsPerPage + 1 and last = first + itemsPerPage - 1, except that on the
\* final page of a known total last = totalItems; it does not raise.
C9_PageItems ==
  last.op = "pageItems" =>
    LET p == page[1]
        first == (p._current_page - 1) * p._items_per_page + 1
    IN  /\ ~last.raised
        /\ last.ret =
             <<first,
               IF p._total_items > 0 /\ p._current_page = p._total_pages
                 THEN p._total_items
                 ELSE first + p._items_per_page - 1>>

(***************************************************************************)
(* Properties of TextWindow on its own, checked under SpecWindow.          *)
(***************************************************************************)

\* C10: in every reachable state the window rectangle lies inside the screen
\* size the TextWindow has recorded: beginRow >= 1, beginColumn >= 1,
\* rows >= 1, columns >= 1, beginRow + rows - 1 <= screen rows and
\* beginColumn + columns - 1 <= screen columns.
C10_WindowInsideScreen ==
  /\ window.beginRow >= 1 /\ window.beginColumn >= 1
  /\ window.rows >= 1 /\ window.columns >= 1
  /\ window.beginRow + window.rows - 1 <= screen.rows
  /\ window.beginColumn + window.columns - 1 <= screen.columns

(***************************************************************************)
(* Properties of TextPad.write, checked under SpecPadWrite.                *)
(***************************************************************************)
RECURSIVE ConcatTexts(_)
ConcatTexts(frags) ==
  IF frags = <<>> THEN <<>> ELSE Head(frags).text \o ConcatTexts(Tail(frags))

\* C1: with line wrap enabled, a write of a text of length L at a resolved
\* anchor (row, col) inside the pad, with L > columns - col + 1, appends
\* fragments on the consecutive rows row, row + 1, ... (the first at column
\* col, every continuation at column 1, none longer than pad.columns) whose
\* texts, concatenated in row order, are the text written, for every anchor
\* row in 1 .. pad.rows.
C1_WrapLaw ==
  [][ LET row == IF last'.row > 0 THEN last'.row ELSE pad.cursorRow
          col == IF last'.column > 0 THEN last'.column ELSE pad.cursorColumn
          new == SubSeq(pad'.buffer, Len(pad.buffer) + 1, Len(pad'.buffer))
      IN  ( /\ last'.op \in {"write", "print"}
            /\ pad.lineWrap
            /\ row \in 1 .. pad.rows /\ col \in 1 .. pad.columns
            /\ Len(last'.text) > pad.columns - col + 1 )
          => /\ \A i \in 1 .. Len(new) :
                  /\ new[i].row = row + i - 1
                  /\ new[i].column = IF i = 1 THEN col ELSE 1
                  /\ Len(new[i].text) <= pad.columns
             /\ ConcatTexts(new) = last'.text ]_vars

(***************************************************************************)
(* Properties of TextPad.flush, checked under SpecPad.  After a flush (on  *)
(* its own or at the end of movePad) wcalls holds, for the i-th fragment   *)
(* of the pad's buffer, the TextWindow.write call made for it, if any.     *)
(***************************************************************************)
Flushed == last.op \in {"flush", "movePad"}

Delta ==
  IF page # <<>> THEN (page[1]._current_page - 1) * page[1]._items_per_page ELSE 0

\* the row filter of flush
PassesRowFilter(rt) ==
  /\ rt.row >= pad.beginRow + Delta
  /\ page # <<>> => rt.row < pad.beginRow + Delta + page[1]._items_per_page

\* the window-local row of a pad row
LocalRow(rt) == rt.row - pad.beginRow - Delta + 1

Accepted(i) == wcalls[i].called /\ wcalls[i].ret

\* The i-th fragment of the pad is in the window's buffer: the window took the
\* write made for it, and holds, at that write's place among those it took, a
\* fragment at the row and column written, with the attributes of the pad's
\* fragment and a prefix of the text handed over.
InWindowBuffer(i) ==
  /\ Accepted(i)
  /\ LET k == Cardinality({ j \in 1 .. i : Accepted(j) })
     IN  /\ k <= Len(window.buffer)
         /\ window.buffer[k].row = wcalls[i].row
         /\ window.buffer[k].column = wcalls[i].column
         /\ window.buffer[k].attrs = pad.buffer[i].attrs
         /\ window.buffer[k].text =
              SubSeq(wcalls[i].text, 1, Len(window.buffer[k].text))

\* C2 as claimed: a fragment on a row that passes the row filter, at column C
\* with a text of length N, against beginColumn B, is in the window's buffer
\* after a flush if and only if C + N > B, and then the text handed to the
\* window is text[max(0, B - C):], at window-local column max(1, C - B + 1).
C2_ColumnClipAsClaimed ==
  Flushed =>
    \A i \in 1 .. Len(pad.buffer) :
      LET rt == pad.buffer[i]
          C == rt.column
          N == Len(rt.text)
          B == pad.beginColumn
      IN  PassesRowFilter(rt) =>
            /\ InWindowBuffer(i) <=> C + N > B
            /\ InWindowBuffer(i) =>
                 /\ wcalls[i].text = Slice(rt.text, Max(0, B - C), N)
                 /\ wcalls[i].column = Max(1, C - B + 1)

\* C2, amended: ... is in the window's buffer after a flush if and only if
\* (C >= B or C + N > B) and its window-local row is at most window.rows and
\* its window-local column max(1, C - B + 1) is at most window.columns; and
\* then the text handed to the window is text[max(0, B - C):], at window-local
\* column max(1, C - B + 1).
C2_ColumnClip ==
  Flushed =>
    \A i \in 1 .. Len(pad.buffer) :
      LET rt == pad.buffer[i]
          C == rt.column
          N == Len(rt.text)
          B == pad.beginColumn
      IN  PassesRowFilter(rt) =>
            /\ InWindowBuffer(i) <=>
                 /\ C >= B \/ C + N > B
                 /\ LocalRow(rt) <= window.rows
                 /\ Max(1, C - B + 1) <= window.columns
            /\ InWindowBuffer(i) =>
                 /\ wcalls[i].text = Slice(rt.text, Max(0, B - C), N)
                 /\ wcalls[i].column = Max(1, C - B + 1)

\* C2: a flush has put into the window's buffer a fragment that straddles the
\* left edge of the viewport (C < B < C + N), and has left out one that ends
\* left of it.
C2_Witness ==
  /\ Flushed
  /\ \E i \in 1 .. Len(pad.buffer) :
       /\ pad.buffer[i].column < pad.beginColumn
       /\ InWindowBuffer(i)
       /\ Len(wcalls[i].text) < Len(pad.buffer[i].text)
  /\ \E i \in 1 .. Len(pad.buffer) :
       /\ PassesRowFilter(pad.buffer[i])
       /\ pad.buffer[i].text # <<>>
       /\ ~InWindowBuffer(i)

\* the columns of the fragment meet those of the viewport
ColumnsIntersect(rt) ==
  /\ rt.column + Len(rt.text) > pad.beginColumn
  /\ rt.column <= pad.beginColumn + window.columns - 1
  /\ rt.text # <<>>

\* C3 as claimed: with a Pagination attached and delta = (currentPage - 1) *
\* itemsPerPage, a fragment on pad row R whose columns meet the viewport is
\* in the window's buffer after a flush if and only if beginRow + delta <= R <
\* beginRow + delta + itemsPerPage, and then at window-local row
\* R - beginRow - delta + 1.
C3_PageRowsAsClaimed ==
  (Flushed /\ page # <<>>) =>
    \A i \in 1 .. Len(pad.buffer) :
      LET rt == pad.buffer[i]
      IN  ColumnsIntersect(rt) =>
            /\ InWindowBuffer(i) <=> PassesRowFilter(rt)
            /\ InWindowBuffer(i) => wcalls[i].row = LocalRow(rt)

\* C3, amended: ... if and only if beginRow + delta <= R < beginRow + delta +
\* itemsPerPage and R - beginRow - delta + 1 <= window.rows, and then at
\* window-local row R - beginRow - delta + 1.
C3_PageRows ==
  (Flushed /\ page # <<>>) =>
    \A i \in 1 .. Len(pad.buffer) :
      LET rt == pad.buffer[i]
      IN  ColumnsIntersect(rt) =>
            /\ InWindowBuffer(i) <=>
                 (PassesRowFilter(rt) /\ LocalRow(rt) <= window.rows)
            /\ InWindowBuffer(i) => wcalls[i].row = LocalRow(rt)

\* C3: on page 2 a flush has put into the window's buffer, at window-local
\* row 1, a fragment of the first row of that page, and has left out a
\* fragment of page 1 whose columns meet the viewport: the page alone decides
\* which of the buffered fragments are shown.
C3_Witness ==
  /\ last.op = "flush"
  /\ page # <<>> /\ page[1]._current_page = 2
  /\ \E i \in 1 .. Len(pad.buffer) :
       /\ pad.buffer[i].row = pad.beginRow + page[1]._items_per_page
       /\ InWindowBuffer(i)
       /\ wcalls[i].row = 1
  /\ \E i \in 1 .. Len(pad.buffer) :
       /\ pad.buffer[i].row = pad.beginRow
       /\ ColumnsIntersect(pad.buffer[i])
       /\ ~InWindowBuffer(i)

(***************************************************************************)
(* Properties of TextWindow.flush and TextWindow.write, under SpecWindow.  *)
(***************************************************************************)
\* the window rectangle lies inside a terminal of size t
Fits(w, t) ==
  /\ w.beginRow + w.rows - 1 <= t.rows
  /\ w.beginColumn + w.columns - 1 <= t.columns

\* what flush is to write for fragment rt of window w: its text with its
\* attributes at the absolute position of the fragment
Emitted(o, w, rt) ==
  /\ o.at = <<w.beginRow + rt.row - 1, w.beginColumn + rt.column - 1>>
  /\ o.text = rt.text
  /\ o.attrs = rt.attrs

\* C11: a flush of the window writes every fragment of its buffer, in the
\* order of the buffer, at (beginRow + row - 1, beginColumn + column - 1), when
\* the window fits the live terminal; every flush made while the live terminal
\* is too small for the window writes nothing, however many flushes came
\* since the terminal shrank.
C11_WindowFlush ==
  (pad = Absent /\ last.op = "flush") =>
    IF Fits(window, term)
      THEN /\ Len(out) = Len(window.buffer)
           /\ \A i \in 1 .. Len(out) : Emitted(out[i], window, window.buffer[i])
      ELSE out = <<>>

\* every fragment of the window's buffer lies inside the window
FragmentsInside(w) ==
  \A i \in 1 .. Len(w.buffer) :
    /\ w.buffer[i].row \in 1 .. w.rows
    /\ w.buffer[i].column \in 1 .. w.columns
    /\ w.buffer[i].column + Len(w.buffer[i].text) - 1 <= w.columns

\* C12: write(text, row, column) on a window takes row 0 as the cursor row and
\* column 0 as the cursor column; with that anchor beyond the window's rows or
\* columns it returns False and leaves buffer and cursor alone; otherwise it
\* returns True and appends one fragment at the anchor, holding the first
\* min(len(text), columns - column + 1) characters of the text.  Every
\* fragment in the window's buffer lies inside the window.
C12_WindowWrite ==
  [][ /\ (pad' = Absent /\ last'.op \in {"write", "print"}) =>
           LET r == IF last'.row > 0 THEN last'.row ELSE window.cursorRow
               c == IF last'.column > 0 THEN last'.column ELSE window.cursorColumn
               n == Min(Len(last'.text), window.columns - c + 1)
           IN  IF r > window.rows \/ c > window.columns
                 THEN last'.ret = FALSE /\ window' = window
                 ELSE /\ last'.ret = TRUE
                      /\ window'.buffer =
                           Append(window.buffer,
                                  RichText(SubSeq(last'.text, 1, n), last'.attrs, r, c))
      /\ window' # Absent => FragmentsInside(window') ]_vars

\* C12: a write at the cursor (row 0, column 0), away from the window's
\* corner, has been cut at the right edge of the window.
C12_Witness ==
  /\ pad = Absent /\ last.op = "write" /\ last.ret
  /\ last.row = 0 /\ last.column = 0
  /\ window.buffer # <<>>
  /\ LET f == window.buffer[Len(window.buffer)]
     IN  /\ f.column > 1
         /\ f.text # <<>>
         /\ Len(f.text) < Len(last.text)

(***************************************************************************)
(* The cursor after a write with a line feed, on a window (SpecWindow) and *)
(* on a pad (SpecPadWrite).                                                *)
(***************************************************************************)
\* C13: after a successful write with line_feed true (a print), the cursor is
\* at column 1 of the row after the last row that received text: for a window
\* the row after the row written, for a pad the row after the last fragment
\* the write appended, line wrap included.
C13_CursorAfterLineFeed ==
  (last.op \in {"write", "print"} /\ last.line_feed /\ last.ret) =>
    LET self == IF pad = Absent THEN window ELSE pad
    IN  /\ self.cursorRow = self.buffer[Len(self.buffer)].row + 1
        /\ self.cursorColumn = 1

(***************************************************************************)
(* Properties of TextWindow.setSize and setPos, under SpecWindow.  The     *)
(* screen is the TextScreen of the window, with the size it has recorded.  *)
(***************************************************************************)
\* C14: when setSize(rows, columns) accepts a size other than the current one,
\* the window then has the new size, an empty buffer, and its previous anchor
\* if the resized window still fits the screen there, (1, 1) otherwise.
C14_SetSizeAccepted ==
  [][ ( /\ pad' = Absent /\ last'.op = "setSize" /\ last'.ret
        /\ <<last'.rows, last'.columns>> # <<window.rows, window.columns>> )
      => /\ window'.rows = last'.rows /\ window'.columns = last'.columns
         /\ window'.buffer = <<>>
         /\ <<window'.beginRow, window'.beginColumn>> =
              IF /\ window.beginRow + last'.rows - 1 <= screen.rows
                 /\ window.beginColumn + last'.columns - 1 <= screen.columns
                THEN <<window.beginRow, window.beginColumn>>
                ELSE <<1, 1>> ]_vars

\* C14: setSize has accepted a size other than the one the window had, and the
\* window, which no longer fitted the screen at its anchor, is now at (1, 1).
C14_Witness ==
  /\ pad = Absent /\ last.op = "setSize" /\ last.ret
  /\ <<last.rows, last.columns>> # <<last.was.rows, last.was.columns>>
  /\ <<last.was.beginRow, last.was.beginColumn>> # <<1, 1>>
  /\ <<window.beginRow, window.beginColumn>> = <<1, 1>>
  /\ <<window.rows, window.columns>> = <<last.rows, last.columns>>

C16_TotalItemsFollowsMaxRows ==
  page # <<>> =>
    page[1]._total_items = Max(0, pad._max_rows - pad.beginRow + 1)

(***************************************************************************)
(* The pad's high-water mark and its window moved and resized, under       *)
(* SpecPadWindow.                                                          *)
(***************************************************************************)
\* C17 as claimed: over the lifetime of a pad no operation (write, print,
\* flush, movePad, moveWindow, resizeWindow, paginate, newContent, newPad,
\* clearWindow) takes _max_rows from a value to a smaller one.
C17_MaxRowsNeverDecreasesAsClaimed ==
  [][ pad'._max_rows >= pad._max_rows ]_vars

\* C17, amended: write, print, flush, movePad, moveWindow, resizeWindow,
\* paginate and clearWindow never take _max_rows from a value to a smaller
\* one; newContent and newPad set it to 0.
C17_MaxRowsNeverDecreases ==
  [][ IF last'.op \in {"newContent", "newPad"}
        THEN pad'._max_rows = 0
        ELSE pad'._max_rows >= pad._max_rows ]_vars

\* C17: a write on a row below the high-water mark has been accepted and has
\* left the mark where it was.
C17_Witness ==
  /\ last.op \in {"write", "print"} /\ last.ret
  /\ last.row > 0 /\ last.row < pad._max_rows

(***************************************************************************)
(* A flush in full-screen mode, under SpecPadFullScreen.                   *)
(***************************************************************************)
\* C18: with full-screen mode enabled, after every flush of the pad the rows
\* and columns of its window are those of the live terminal at the time of
\* the flush, whatever resizes came since the flush before.
C18_FullScreenFollowsTerminal ==
  (last.op = "flush" /\ pad.fullScreen) =>
    (window.rows = term.rows /\ window.columns = term.columns)

(***************************************************************************)
(* moveWindow and resizeWindow of a pad, under SpecPadWindow.              *)
(***************************************************************************)
\* the objects as the step leaves them
Post == [pad |-> pad', window |-> window', screen |-> screen', page |-> page',
         wcalls |-> <<>>, out |-> <<>>]

\* C19: moveWindow and resizeWindow of a pad, when the window accepts the
\* position or size, write what a flush of the pad writes at the new
\* geometry: the pad's buffer as it is, writes since the last flush included;
\* when the window refuses, nothing is written and pad, window and Pagination
\* stay as they were.
C19_MoveResizeFlushPad ==
  [][ /\ last'.op = "moveWindow" =>
           IF TextWindow_setPos(window, screen, last'.beginRow, last'.beginColumn).ret
             THEN /\ window'.beginRow = last'.beginRow
                  /\ window'.beginColumn = last'.beginColumn
                  /\ out' = TextPad_flush(Post, term').out
             ELSE out' = <<>> /\ UNCHANGED <<pad, window, screen, page>>
      /\ last'.op = "resizeWindow" =>
           IF TextWindow_setSize(window, screen, last'.rows, last'.columns).ret
             THEN /\ window'.rows = last'.rows
                  /\ window'.columns = last'.columns
                  /\ out' = TextPad_flush(Post, term').out
             ELSE out' = <<>> /\ UNCHANGED <<pad, window, screen, page>> ]_vars

C21_DerivedItemsPerPage ==
  (page # <<>> /\ pad._items_per_page = 0) =>
    page[1]._items_per_page = window.rows

(***************************************************************************)
(* What a flush of the pad leaves behind, under SpecPadPagedScreen.        *)
(***************************************************************************)
\* fragment rt of the pad st.pad is shown in the window st.window: its row is
\* on the page and in the window, its text reaches the viewport's first
\* column and starts within the window's columns
Shown(st, rt) ==
  LET delta == IF st.page # <<>>
                 THEN (st.page[1]._current_page - 1) * st.page[1]._items_per_page
                 ELSE 0
      row == rt.row - st.pad.beginRow - delta + 1
  IN  /\ row >= 1 /\ row <= st.window.rows
      /\ st.page # <<>> => row <= st.page[1]._items_per_page
      /\ rt.column >= st.pad.beginColumn
           \/ rt.column + Len(rt.text) > st.pad.beginColumn
      /\ Max(1, rt.column - st.pad.beginColumn + 1) <= st.window.columns

\* the fragment of the window for fragment rt of the pad
Translated(st, rt) ==
  LET delta == IF st.page # <<>>
                 THEN (st.page[1]._current_page - 1) * st.page[1]._items_per_page
                 ELSE 0
      column == Max(1, rt.column - st.pad.beginColumn + 1)
      text == SubSeq(rt.text, Max(0, st.pad.beginColumn - rt.column) + 1, Len(rt.text))
  IN  RichText(SubSeq(text, 1, Min(Len(text), st.window.columns - column + 1)),
               rt.attrs, rt.row - st.pad.beginRow - delta + 1, column)

\* the fragments of st.pad.buffer[i ..] that are shown, translated, in order
RECURSIVE Composed(_, _)
Composed(st, i) ==
  IF i > Len(st.pad.buffer) THEN <<>>
  ELSE (IF Shown(st, st.pad.buffer[i])
          THEN <<Translated(st, st.pad.buffer[i])>> ELSE <<>>)
       \o Composed(st, i + 1)

\* the step ends with a flush of the pad
EndsWithFlush ==
  \/ last'.op \in {"flush", "movePad"}
  \/ /\ last'.op = "resizeWindow"
     /\ TextWindow_setSize(window, screen, last'.rows, last'.columns).ret

\* C22: a flush of the pad (also from movePad or resizeWindow) leaves the
\* pad's buffer, cursor and _max_rows as they were, and leaves in the window's
\* buffer the shown fragments of the pad's buffer, translated, in the order of
\* the pad's buffer, and nothing else; a second flush right after it, with no
\* operation and no resize of the terminal in between, gives the same window
\* buffer and the same output.
C22_FlushFrameAndReplay ==
  [][ EndsWithFlush =>
        /\ pad'.buffer = pad.buffer
        /\ pad'.cursorRow = pad.cursorRow /\ pad'.cursorColumn = pad.cursorColumn
        /\ pad'._max_rows = pad._max_rows
        /\ window'.buffer = Composed(Post, 1)
        /\ LET again == TextPad_flush(Post, term')
           IN  /\ again.window.buffer = window'.buffer
               /\ again.out = out' ]_vars

=============================================================================
